---- MODULE Spec2Model ----
(***************************************************************************)
(* shm-bridge: a state-machine model of src/main.rs (the orchestrator),    *)
(* src/file_mapping.rs (FileMapping) and src/mounts_parser.rs (the parser  *)
(* of /proc/mounts).                                                       *)
(*                                                                         *)
(* Two execution contexts exist: the main thread, which runs main() from   *)
(* top to bottom, and the thread on which the ctrlc crate runs the         *)
(* installed handler closure.  The environment delivers CTRL-C events and  *)
(* decides whether a system call succeeds.  A process that has ended can   *)
(* be started again over the same tmpfs directory (a further "run").       *)
(***************************************************************************)
EXTENDS Integers, Sequences, FiniteSets, TLC

(***************************************************************************)
(* Bounds of the model.                                                    *)
(***************************************************************************)
\* CTRL-C events the environment delivers to one run of the process.
MaxInterrupts == 2
\* Runs of the process over the same tmpfs directory.
MaxRuns == 2
\* Lines of a mount table made of several lines.
MaxLines == 3

(***************************************************************************)
(* Program constants.                                                      *)
(***************************************************************************)
\* main.rs:51
ACC_FILES == <<"acpmf_crewchief", "acpmf_static", "acpmf_physics", "acpmf_graphics">>

\* main.rs:59-64
file_size(name) == IF name = "acpmf_crewchief" THEN 15660 ELSE 2048

\* main.rs:66-81
find_shm_dir == "/dev/shm/"

\* Path::join as used at main.rs:84 and main.rs:170
PathJoin(dir, file_name) == <<dir, file_name>>

NumFiles == Len(ACC_FILES)
Names == {ACC_FILES[k] : k \in 1..NumFiles}
Paths == {PathJoin(find_shm_dir, n) : n \in Names}

(***************************************************************************)
(* The tmpfs directory: every path holds a file of some length or none.    *)
(***************************************************************************)
Absent == [exists |-> FALSE, len |-> 0]
FileOf(n) == [exists |-> TRUE, len |-> n]

\* Lengths of files a previous user of the directory may have left behind:
\* shorter and longer than every configured size.
PriorLens == {100, 20000}
PriorFiles == {Absent} \cup {FileOf(n) : n \in PriorLens}

(***************************************************************************)
(* System calls and library calls, as functions of the state they act on   *)
(* and of env, the environment's decision ("ok" or a failure).             *)
(***************************************************************************)
\* File::options().read(true).write(true).create(true).open(path), main.rs:92-98:
\* opens the file, creating it empty when it does not exist; no truncation.
OpenFile(f, env) ==
    IF env = "ok"
    THEN [ok |-> TRUE, file |-> IF f.exists THEN f ELSE FileOf(0)]
    ELSE [ok |-> FALSE, file |-> f]

\* Faulty variant of set_len: the file is only ever grown, never shortened.
set_len_grow(f, size, env) ==
    IF env = "ok"
    THEN [ok |-> TRUE, file |-> IF f.len > size THEN f ELSE FileOf(size)]
    ELSE [ok |-> FALSE, file |-> f]

\* file.set_len(size as u64), file_mapping.rs:65
set_len(f, size, env) ==
    IF env = "ok"
    THEN [ok |-> TRUE, file |-> FileOf(size)]
    ELSE [ok |-> FALSE, file |-> f]

(***************************************************************************)
(* Fixed-width unsigned integers.  A value of w bits is the sequence of    *)
(* its w/16 digits in base 2^16, least significant first: a usize has 4    *)
(* digits on a 64-bit target and 2 on a 32-bit target, a u64 has 4 and a   *)
(* u32 has 2.                                                              *)
(***************************************************************************)
TwoPow16 == 65536
LimbMax == 65535

\* The usize of a (small) size such as those of file_size.
Usize(n) == <<n % TwoPow16, n \div TwoPow16, 0, 0>>

\* `x as u64` for an unsigned x: zero extension.
AsU64(x) == [k \in 1..4 |-> IF k <= Len(x) THEN x[k] ELSE 0]

\* `x as u32` for a u64 x: truncation to the low 32 bits.
AsU32(x) == <<x[1], x[2]>>

\* Bitwise and of two 16-bit digits, and of two u64.
RECURSIVE BitAnd(_, _)
BitAnd(a, b) ==
    IF a = 0 \/ b = 0 THEN 0
    ELSE ((a % 2) * (b % 2)) + (2 * BitAnd(a \div 2, b \div 2))
And64(x, y) == [k \in 1..4 |-> BitAnd(x[k], y[k])]

\* `x >> 32` for a u64 x.
Shr32(x) == <<x[3], x[4], 0, 0>>

\* 0xFFFF_FFFF_0000_0000_u64 and 0xFFFF_FFFF_u64, file_mapping.rs:67-68
MaskHigh == <<0, 0, LimbMax, LimbMax>>
MaskLow == <<LimbMax, LimbMax, 0, 0>>

\* Faulty variant of low_size: the mask keeps 16 bits only.
low_size_short(size) == AsU32(And64(AsU64(size), <<LimbMax, 0, 0, 0>>))

\* file_mapping.rs:67-68: the upper and the lower 32 bits of size as u64.
high_size(size) == AsU32(Shr32(And64(AsU64(size), MaskHigh)))
low_size(size) == AsU32(And64(AsU64(size), MaskLow))

\* Sizes FileMapping::new is looked at for: every usize, of either width,
\* whose digits are among these.
LimbSamples == {0, 1, 32768, LimbMax}
SizeSamples == [1..2 -> LimbSamples] \cup [1..4 -> LimbSamples]

\* Faulty variant of CreateFileMappingW: the mapping is created without a name.
CreateFileMappingAnonymous(path, high, low, name, env) ==
    IF env = "ok"
    THEN [ok |-> TRUE,
          object |-> [name |-> "", path |-> path, high |-> high, low |-> low,
                      state |-> "open", closes |-> 0]]
    ELSE [ok |-> FALSE, object |-> <<>>]

\* CreateFileMappingW(handle, None, PAGE_READWRITE, high, low, &name),
\* file_mapping.rs:72-89: a new open native mapping object of that name over
\* the file at path.
CreateFileMappingW(path, high, low, name, env) ==
    IF env = "ok"
    THEN [ok |-> TRUE,
          object |-> [name |-> name, path |-> path, high |-> high, low |-> low,
                      state |-> "open", closes |-> 0]]
    ELSE [ok |-> FALSE, object |-> <<>>]

\* CloseHandle(self.handle), file_mapping.rs:93-98 (its result is ignored).
CloseHandle(o) == [o EXCEPT !.state = "closed", !.closes = @ + 1]

Range(s) == {s[k] : k \in DOMAIN s}

\* Faulty variant of DropVec: the elements are forgotten, not dropped.
DropVecLeak(objs, ms) == objs

\* Faulty variant of DropVec: every handle is closed by two owners.
DropVecTwice(objs, ms) ==
    [k \in DOMAIN objs |->
        IF k \in Range(ms) THEN CloseHandle(CloseHandle(objs[k])) ELSE objs[k]]

\* Dropping the Vec<FileMapping> ms: every element is dropped, and each drop
\* closes its handle (main.rs:133, file_mapping.rs:93-98).
DropVec(objs, ms) ==
    [k \in DOMAIN objs |-> IF k \in Range(ms) THEN CloseHandle(objs[k]) ELSE objs[k]]

\* Faulty variant of remove_file: success is reported and the file stays.
remove_file_keep(f, env) ==
    IF env = "ok" THEN [ok |-> TRUE, file |-> f]
    ELSE IF env = "not_found" THEN [ok |-> FALSE, file |-> Absent]
    ELSE [ok |-> FALSE, file |-> f]

\* remove_file(&path), main.rs:172.  "not_found": the file is no longer there
\* (another process removed it); "denied": the file stays.
remove_file(f, env) ==
    IF env = "ok" THEN [ok |-> TRUE, file |-> Absent]
    ELSE IF env = "not_found" THEN [ok |-> FALSE, file |-> Absent]
    ELSE [ok |-> FALSE, file |-> f]

\* What the operating system does with the handles of a process that is
\* terminated: it releases those still open (no CloseHandle call is made).
OsRelease(objs) ==
    [k \in DOMAIN objs |->
        IF objs[k].state = "open" THEN [objs[k] EXCEPT !.state = "closed"] ELSE objs[k]]

(***************************************************************************)
(* State.                                                                  *)
(***************************************************************************)
VARIABLES
    run,        \* number of the current run of the process
    results,    \* how the earlier runs ended (their status)
    files,      \* the tmpfs directory: path -> file
    pc,         \* position of the main thread in main()
    idx,        \* index into ACC_FILES of the loop main is in
    fileHandle, \* path of the File create_file_mapping holds open, or <<>>
    objects,    \* native mapping objects created by this run, in creation order
    mappings,   \* the Vec<FileMapping> of main: indices into objects
    handler,    \* TRUE once ctrlc::set_handler has installed the closure
    pending,    \* handler invocations started and not yet run
    token,      \* the park token of the main thread
    delivered,  \* CTRL-C events delivered to this run
    err,        \* the error main returns, or NoErr
    status,     \* "running", or how the process ended
    unlinks,    \* remove_file calls made by this run, per segment index
    faulted,    \* TRUE once the environment made a call of this run fail
    lastResize, \* the file the last successful set_len of this run found
    ctx,        \* the context that took the last step
    table,      \* parse_proc_mouns: the lines of the mount table read
    pos,        \* parse_proc_mouns: index of the next line of table
    mounts,     \* parse_proc_mouns: the Vec<Mount> built so far
    diags,      \* parse_proc_mouns: lines reported with eprintln! so far
    pstate,     \* parse_proc_mouns: "idle", "reading", "ok" or "io_error"
    shmDir,     \* what find_shm_dir returned after the table was read
    call        \* FileMapping::new: the size computations of one call

mainVars == <<run, results, files, pc, idx, fileHandle, objects, mappings, handler,
              pending, token, delivered, err, status, unlinks, faulted, lastResize,
              ctx>>
parserVars == <<table, pos, mounts, diags, pstate, shmDir>>
sizeVars == <<call>>
vars == <<mainVars, parserVars, sizeVars>>

NoErr == [segment |-> "", cause |-> ""]
NoFileHandle == <<>>

\* Faulty variant of Fresh: the handler is installed before the creation loop.
FreshHandlerFirst ==
    /\ pc = "open"
    /\ idx = 1
    /\ fileHandle = NoFileHandle
    /\ objects = <<>>
    /\ mappings = <<>>
    /\ handler = TRUE
    /\ pending = 0
    /\ token = FALSE
    /\ delivered = 0
    /\ err = NoErr
    /\ status = "running"
    /\ unlinks = [k \in 1..NumFiles |-> 0]
    /\ faulted = FALSE
    /\ lastResize = Absent

\* The state of a freshly started process.
Fresh ==
    /\ pc = "open"
    /\ idx = 1
    /\ fileHandle = NoFileHandle
    /\ objects = <<>>
    /\ mappings = <<>>
    /\ handler = FALSE
    /\ pending = 0
    /\ token = FALSE
    /\ delivered = 0
    /\ err = NoErr
    /\ status = "running"
    /\ unlinks = [k \in 1..NumFiles |-> 0]
    /\ faulted = FALSE
    /\ lastResize = Absent

\* No mount table is being read.
ParserIdle ==
    /\ table = <<>>
    /\ pos = 1
    /\ mounts = <<>>
    /\ diags = 0
    /\ pstate = "idle"
    /\ shmDir = <<>>

\* No size computation is being looked at.
SizeIdle == call = <<>>

Init ==
    /\ run = 1
    /\ results = <<>>
    /\ files \in [Paths -> PriorFiles]
    /\ Fresh
    /\ ctx = "env"
    /\ ParserIdle
    /\ SizeIdle

(***************************************************************************)
(* The main thread: main(), main.rs:130-177.                               *)
(***************************************************************************)
Main == status = "running" /\ ctx' = "main" /\ UNCHANGED <<parserVars, sizeVars>>

\* main.rs:140-143: an error of create_file_mapping is wrapped with the name
\* of the segment of the current iteration and returned from main.
StartupError(cause) == [segment |-> ACC_FILES[idx], cause |-> cause]

\* create_file_mapping, main.rs:84-98: open or create the backing file.
Open ==
    /\ Main /\ pc = "open"
    /\ \E env \in {"ok", "fault"} :
        LET path == PathJoin(find_shm_dir, ACC_FILES[idx])
            r == OpenFile(files[path], env)
        IN  /\ files' = [files EXCEPT ![path] = r.file]
            /\ IF r.ok
               THEN /\ fileHandle' = path
                    /\ pc' = "set_len"
                    /\ UNCHANGED <<err, faulted>>
               ELSE /\ fileHandle' = NoFileHandle
                    /\ pc' = "drop"
                    /\ err' = StartupError("open")
                    /\ faulted' = TRUE
    /\ UNCHANGED <<run, results, idx, objects, mappings, handler, pending, token,
                   delivered, status, unlinks, lastResize>>

\* FileMapping::new, file_mapping.rs:65: resize the backing file.
SetLen ==
    /\ Main /\ pc = "set_len"
    /\ \E env \in {"ok", "fault"} :
        LET r == set_len(files[fileHandle], file_size(ACC_FILES[idx]), env)
        IN  /\ files' = [files EXCEPT ![fileHandle] = r.file]
            /\ IF r.ok
               THEN /\ pc' = "map"
                    /\ lastResize' = files[fileHandle]
                    /\ UNCHANGED <<fileHandle, err, faulted>>
               ELSE /\ fileHandle' = NoFileHandle
                    /\ pc' = "drop"
                    /\ err' = StartupError("set_len")
                    /\ faulted' = TRUE
                    /\ UNCHANGED lastResize
    /\ UNCHANGED <<run, results, idx, objects, mappings, handler, pending, token,
                   delivered, status, unlinks>>

\* Faulty variant of CreateMapping: a failed segment is reported and the loop
\* goes on with the next one.
CreateMappingContinuing ==
    /\ Main /\ pc = "map"
    /\ \E env \in {"ok", "fault"} :
        LET name == ACC_FILES[idx]
            size == file_size(name)
            r == CreateFileMappingW(fileHandle, high_size(Usize(size)), low_size(Usize(size)),
                                    name, env)
        IN  /\ IF r.ok
               THEN /\ objects' = Append(objects, r.object)
                    /\ mappings' = Append(mappings, Len(objects) + 1)
                    /\ UNCHANGED <<err, faulted>>
               ELSE /\ err' = StartupError("map")
                    /\ faulted' = TRUE
                    /\ UNCHANGED <<objects, mappings>>
            /\ IF idx < NumFiles
               THEN idx' = idx + 1 /\ pc' = "open"
               ELSE idx' = idx /\ pc' = "drop"
    /\ fileHandle' = NoFileHandle
    /\ UNCHANGED <<run, results, files, handler, pending, token, delivered, status,
                   unlinks, lastResize>>

\* FileMapping::new, file_mapping.rs:67-90, then main.rs:125-127 (the File is
\* closed on return) and main.rs:145-147 (the mapping is pushed).
CreateMapping ==
    /\ Main /\ pc = "map"
    /\ \E env \in {"ok", "fault"} :
        LET name == ACC_FILES[idx]
            size == file_size(name)
            r == CreateFileMappingW(fileHandle, high_size(Usize(size)), low_size(Usize(size)),
                                    name, env)
        IN  IF r.ok
            THEN /\ objects' = Append(objects, r.object)
                 /\ mappings' = Append(mappings, Len(objects) + 1)
                 /\ IF idx < NumFiles
                    THEN idx' = idx + 1 /\ pc' = "open"
                    ELSE idx' = idx /\ pc' = "set_handler"
                 /\ UNCHANGED <<err, faulted>>
            ELSE /\ pc' = "drop"
                 /\ err' = StartupError("map")
                 /\ faulted' = TRUE
                 /\ UNCHANGED <<objects, mappings, idx>>
    /\ fileHandle' = NoFileHandle
    /\ UNCHANGED <<run, results, files, handler, pending, token, delivered, status,
                   unlinks, lastResize>>

\* main.rs:149-156: install the handler; expect() panics on failure, and the
\* unwinding of main drops mappings.
SetHandler ==
    /\ Main /\ pc = "set_handler"
    /\ \E env \in {"ok", "fault"} :
        IF env = "ok"
        THEN /\ handler' = TRUE
             /\ pc' = "announce"
             /\ UNCHANGED <<err, faulted>>
        ELSE /\ handler' = handler
             /\ pc' = "drop"
             /\ err' = [segment |-> "", cause |-> "panic"]
             /\ faulted' = TRUE
    /\ UNCHANGED <<run, results, files, idx, fileHandle, objects, mappings, pending,
                   token, delivered, status, unlinks, lastResize>>

\* main.rs:158: the handler is installed and main has not yet called park.
Announce ==
    /\ Main /\ pc = "announce"
    /\ pc' = "park"
    /\ UNCHANGED <<run, results, files, idx, fileHandle, objects, mappings, handler,
                   pending, token, delivered, err, status, unlinks, faulted,
                   lastResize>>

\* std::thread::park(), main.rs:162: returns at once when the token is set,
\* consuming it ...
ParkWoken ==
    /\ Main /\ pc = "park"
    /\ token
    /\ token' = FALSE
    /\ pc' = "unlink"
    /\ idx' = 1
    /\ UNCHANGED <<run, results, files, fileHandle, objects, mappings, handler,
                   pending, delivered, err, status, unlinks, faulted, lastResize>>

\* ... and otherwise blocks; as documented for park, the call may also return
\* spuriously, without unpark having been called.  main does not call it in
\* a loop.
ParkSpurious ==
    /\ Main /\ pc = "park"
    /\ ~token
    /\ pc' = "unlink"
    /\ idx' = 1
    /\ UNCHANGED <<run, results, files, fileHandle, objects, mappings, handler,
                   pending, token, delivered, err, status, unlinks, faulted, lastResize>>

\* Faulty variant of Unlink: the mapping of a segment is dropped in the
\* iteration that removes its file.
UnlinkClosing ==
    /\ Main /\ pc = "unlink"
    /\ \E env \in {"ok", "not_found", "denied"} :
        LET path == PathJoin(find_shm_dir, ACC_FILES[idx])
            r == remove_file(files[path], env)
        IN  /\ files' = [files EXCEPT ![path] = r.file]
            /\ unlinks' = [unlinks EXCEPT ![idx] = @ + 1]
            /\ objects' = [objects EXCEPT ![idx] = CloseHandle(@)]
            /\ mappings' = SelectSeq(mappings, LAMBDA m : m # idx)
            /\ IF r.ok
               THEN /\ IF idx < NumFiles
                       THEN idx' = idx + 1 /\ pc' = "unlink"
                       ELSE idx' = idx /\ pc' = "drop"
                    /\ UNCHANGED <<err, faulted>>
               ELSE /\ idx' = idx
                    /\ pc' = "drop"
                    /\ err' = [segment |-> ACC_FILES[idx], cause |-> "unlink"]
                    /\ faulted' = TRUE
    /\ UNCHANGED <<run, results, fileHandle, handler, pending, token, delivered,
                   status, lastResize>>

\* One iteration of the loop at main.rs:168-174; `?` returns the error of a
\* failed remove_file from main.
Unlink ==
    /\ Main /\ pc = "unlink"
    /\ \E env \in {"ok", "not_found", "denied"} :
        LET path == PathJoin(find_shm_dir, ACC_FILES[idx])
            r == remove_file(files[path], env)
        IN  /\ files' = [files EXCEPT ![path] = r.file]
            /\ unlinks' = [unlinks EXCEPT ![idx] = @ + 1]
            /\ IF r.ok
               THEN /\ IF idx < NumFiles
                       THEN idx' = idx + 1 /\ pc' = "unlink"
                       ELSE idx' = idx /\ pc' = "drop"
                    /\ UNCHANGED <<err, faulted>>
               ELSE /\ idx' = idx
                    /\ pc' = "drop"
                    /\ err' = [segment |-> ACC_FILES[idx], cause |-> "unlink"]
                    /\ faulted' = TRUE
    /\ UNCHANGED <<run, results, fileHandle, objects, mappings, handler, pending,
                   token, delivered, status, lastResize>>

\* The exit status of the process for the value main returns (or its panic).
ExitStatus(e) ==
    IF e = NoErr THEN "success"
    ELSE IF e.cause = "panic" THEN "panic"
    ELSE "failure"

\* Faulty variant of DropMappings: a failed startup also removes the backing
\* files of the mappings it drops.
DropMappingsCleaning ==
    /\ Main /\ pc = "drop"
    /\ objects' = DropVec(objects, mappings)
    /\ files' = IF err.cause \in {"open", "set_len", "map"}
                THEN [q \in Paths |->
                        IF \E k \in Range(mappings) : objects[k].path = q
                        THEN Absent ELSE files[q]]
                ELSE files
    /\ mappings' = <<>>
    /\ pc' = "exited"
    /\ status' = ExitStatus(err)
    /\ UNCHANGED <<run, results, idx, fileHandle, handler, pending, token,
                   delivered, err, unlinks, faulted, lastResize>>

\* main returns (main.rs:143, 156, 173 or 176): mappings goes out of scope and
\* every FileMapping in it is dropped; the process ends.
DropMappings ==
    /\ Main /\ pc = "drop"
    /\ objects' = DropVec(objects, mappings)
    /\ mappings' = <<>>
    /\ pc' = "exited"
    /\ status' = ExitStatus(err)
    /\ UNCHANGED <<run, results, files, idx, fileHandle, handler, pending, token,
                   delivered, err, unlinks, faulted, lastResize>>

(***************************************************************************)
(* The handler context: the closure of main.rs:153-155.                    *)
(***************************************************************************)
\* Faulty variant of the handler: it also drops the mappings of main.
HandlerRunDropping ==
    /\ UNCHANGED <<parserVars, sizeVars>>
    /\ status = "running"
    /\ pending > 0
    /\ pending' = pending - 1
    /\ token' = TRUE
    /\ objects' = DropVec(objects, mappings)
    /\ mappings' = <<>>
    /\ ctx' = "handler"
    /\ UNCHANGED <<run, results, files, pc, idx, fileHandle, handler, delivered,
                   err, status, unlinks, faulted, lastResize>>

\* Faulty variant of the handler: it wakes main only when main is already
\* waiting, and leaves no token otherwise.
HandlerRunIfParked ==
    /\ UNCHANGED <<parserVars, sizeVars>>
    /\ status = "running"
    /\ pending > 0
    /\ pending' = pending - 1
    /\ token' = (token \/ pc = "park")
    /\ ctx' = "handler"
    /\ UNCHANGED <<run, results, files, pc, idx, fileHandle, objects, mappings,
                   handler, delivered, err, status, unlinks, faulted, lastResize>>

\* current_thread.unpark(): sets the park token of the main thread.
HandlerRun ==
    /\ UNCHANGED <<parserVars, sizeVars>>
    /\ status = "running"
    /\ pending > 0
    /\ pending' = pending - 1
    /\ token' = TRUE
    /\ ctx' = "handler"
    /\ UNCHANGED <<run, results, files, pc, idx, fileHandle, objects, mappings,
                   handler, delivered, err, status, unlinks, faulted, lastResize>>

(***************************************************************************)
(* The environment.                                                        *)
(***************************************************************************)
\* A CTRL-C event with the handler of main.rs:153 installed: the ctrlc crate
\* runs the closure on its own thread.
CtrlCHandled ==
    /\ UNCHANGED <<parserVars, sizeVars>>
    /\ status = "running"
    /\ delivered < MaxInterrupts
    /\ handler
    /\ delivered' = delivered + 1
    /\ pending' = pending + 1
    /\ ctx' = "env"
    /\ UNCHANGED <<run, results, files, pc, idx, fileHandle, objects, mappings,
                   handler, token, err, status, unlinks, faulted, lastResize>>

\* A CTRL-C event before main.rs:153 has run: the default action terminates
\* the process, and the system releases its handles.
CtrlCKill ==
    /\ UNCHANGED <<parserVars, sizeVars>>
    /\ status = "running"
    /\ delivered < MaxInterrupts
    /\ ~handler
    /\ delivered' = delivered + 1
    /\ status' = "killed"
    /\ pc' = "killed"
    /\ objects' = OsRelease(objects)
    /\ mappings' = <<>>
    /\ fileHandle' = NoFileHandle
    /\ ctx' = "env"
    /\ UNCHANGED <<run, results, files, idx, handler, pending, token, err, unlinks,
                   faulted, lastResize>>

\* The process is started again over the same directory.
Restart ==
    /\ UNCHANGED <<parserVars, sizeVars>>
    /\ status # "running"
    /\ run < MaxRuns
    /\ run' = run + 1
    /\ results' = Append(results, status)
    /\ pc' = "open"
    /\ idx' = 1
    /\ fileHandle' = NoFileHandle
    /\ objects' = <<>>
    /\ mappings' = <<>>
    /\ handler' = FALSE
    /\ pending' = 0
    /\ token' = FALSE
    /\ delivered' = 0
    /\ err' = NoErr
    /\ status' = "running"
    /\ unlinks' = [k \in 1..NumFiles |-> 0]
    /\ faulted' = FALSE
    /\ lastResize' = Absent
    /\ ctx' = "env"
    /\ UNCHANGED files

Next ==
    \/ Open
    \/ SetLen
    \/ CreateMapping
    \/ SetHandler
    \/ Announce
    \/ ParkWoken
    \/ ParkSpurious
    \/ Unlink
    \/ DropMappings
    \/ HandlerRun
    \/ CtrlCHandled
    \/ CtrlCKill
    \/ Restart

Spec == Init /\ [][Next]_vars

\* The steps of the main thread that the scheduler eventually lets it take;
\* a spurious return of park is possible and never guaranteed.
MainStep ==
    \/ Open
    \/ SetLen
    \/ CreateMapping
    \/ SetHandler
    \/ Announce
    \/ ParkWoken
    \/ Unlink
    \/ DropMappings

\* Both threads are scheduled: a thread that can take a step eventually does.
FairSpec == Spec /\ WF_vars(MainStep) /\ WF_vars(HandlerRun)

(***************************************************************************)
(* The parser of src/mounts_parser.rs.  A string is the sequence of its    *)
(* characters; a parser maps its input to [ok, rest, val] as the nom       *)
(* combinators do.                                                         *)
(***************************************************************************)
Take(i, n) == SubSeq(i, 1, n)
Drop(i, n) == SubSeq(i, n + 1, Len(i))
Ok(rest, val) == [ok |-> TRUE, rest |-> rest, val |-> val]
Fail == [ok |-> FALSE, rest |-> <<>>, val |-> <<>>]

\* The characters char::is_whitespace accepts, nom's space0/space1 accept,
\* and is_digit (mounts_parser.rs:108-110) accepts.
Whitespace == {" ", "\t", "\n", "\r"}
Spaces == {" ", "\t"}
Digits == {"0", "1", "2", "3", "4", "5", "6", "7", "8", "9"}

\* The element of a set of one element: The({e(x) : x \in {v}}) is e at the
\* value of v.
The(S) == CHOOSE y \in S : TRUE

\* Length of the longest prefix of i with no character of stops, and of the
\* longest prefix of i made of characters of chars.
PrefixLen(i, stops) ==
    The({IF hits = {} THEN Len(i) ELSE (CHOOSE k \in hits : \A j \in hits : k <= j) - 1 :
         hits \in {{k \in 1..Len(i) : i[k] \in stops}}})
SpanLen(i, chars) ==
    The({IF hits = {} THEN Len(i) ELSE (CHOOSE k \in hits : \A j \in hits : k <= j) - 1 :
         hits \in {{k \in 1..Len(i) : i[k] \notin chars}}})
Split(i, n) == Ok(Drop(i, n), Take(i, n))

\* nom: take_till(stop), space0, space1, tag(t), take_while1(is_digit)
take_till(i, stops) == Split(i, PrefixLen(i, stops))
space0(i) == Split(i, SpanLen(i, Spaces))
space1(i) == The({IF n >= 1 THEN Split(i, n) ELSE Fail : n \in {SpanLen(i, Spaces)}})
tag(i, t) ==
    IF Len(i) >= Len(t) /\ Take(i, Len(t)) = t THEN Ok(Drop(i, Len(t)), t) ELSE Fail
take_digits1(i) == The({IF n >= 1 THEN Split(i, n) ELSE Fail : n \in {SpanLen(i, Digits)}})

\* mounts_parser.rs:112-114: u8::from_str_radix(input, 10) of a digit string
DigitValue(c) ==
    CASE c = "0" -> 0 [] c = "1" -> 1 [] c = "2" -> 2 [] c = "3" -> 3 [] c = "4" -> 4
      [] c = "5" -> 5 [] c = "6" -> 6 [] c = "7" -> 7 [] c = "8" -> 8 [] c = "9" -> 9
U8Max == 255
RECURSIVE DecimalValue(_)
DecimalValue(ds) ==
    IF ds = <<>> THEN 0
    ELSE The({IF hi > U8Max THEN hi ELSE (10 * hi) + DigitValue(ds[Len(ds)]) :
              hi \in {DecimalValue(Take(ds, Len(ds) - 1))}})
from_digit(ds) ==
    The({IF ds # <<>> /\ n <= U8Max
         THEN [ok |-> TRUE, val |-> n]
         ELSE [ok |-> FALSE, val |-> 0] : n \in {DecimalValue(ds)}})

\* mounts_parser.rs:116-118: value(" ", tag("040"))
escaped_space(i) ==
    The({IF r.ok THEN Ok(r.rest, <<" ">>) ELSE Fail : r \in {tag(i, <<"0", "4", "0">>)}})

\* mounts_parser.rs:120-122: recognize(char('\\'))
escaped_backslash(i) == tag(i, <<"\\">>)

\* mounts_parser.rs:128: alt((escaped_backslash, escaped_space))
escape_alt(i) ==
    The({IF r.ok THEN r ELSE escaped_space(i) : r \in {escaped_backslash(i)}})

\* nom: is_not("\\"), at least one character other than a backslash
is_not_backslash(i) ==
    The({IF n >= 1 THEN Split(i, n) ELSE Fail : n \in {PrefixLen(i, {"\\"})}})

\* nom: escaped_transform(normal, '\\', transform), from the remainder rem of
\* the input with res built so far.
RECURSIVE EscapedTransform(_, _)
EscapedTransform(rem, res) ==
    IF rem = <<>> THEN Ok(<<>>, res)
    ELSE The({
        IF n.ok
        THEN IF n.rest = <<>> THEN Ok(<<>>, res \o n.val)
             ELSE EscapedTransform(n.rest, res \o n.val)
        ELSE \* rem starts with the control character
             IF Len(rem) <= 1 THEN Fail
             ELSE The({IF ~t.ok THEN Fail
                       ELSE IF t.rest = <<>> THEN Ok(<<>>, res \o t.val)
                       ELSE EscapedTransform(t.rest, res \o t.val) :
                       t \in {escape_alt(Drop(rem, 1))}}) :
        n \in {is_not_backslash(rem)}})

\* mounts_parser.rs:124-130
transform_escaped(i) == EscapedTransform(i, <<>>)

\* mounts_parser.rs:132-134: map_parser(take_till(char::is_whitespace), transform_escaped)
string(i) ==
    The({The({IF t.ok THEN Ok(tok.rest, t.val) ELSE Fail :
              t \in {transform_escaped(tok.val)}}) :
         tok \in {take_till(i, Whitespace)}})

\* mounts_parser.rs:136-138
string_without_comma(i) == take_till(i, {","} \cup Whitespace)

\* The parser p followed by space1, with the value of p: the last two parsers
\* of tuple((space0, p, space1)).
ThenSpace1(b) ==
    IF ~b.ok THEN Fail
    ELSE The({IF c.ok THEN Ok(c.rest, b.val) ELSE Fail : c \in {space1(b.rest)}})

\* tuple((space0, string, space1)), the value being that of string
SpacedString(i) ==
    The({The({ThenSpace1(b) : b \in {string(a.rest)}}) : a \in {space0(i)}})

\* mounts_parser.rs:140-142 and 144-148
device(i) == SpacedString(i)
mount_point(i) == SpacedString(i)

\* mounts_parser.rs:62-75
Tmpfs == <<"t", "m", "p", "f", "s">>
FileSystemTypeFrom(value) ==
    IF value = Tmpfs THEN [kind |-> "TmpFs", name |-> <<>>]
    ELSE [kind |-> "Unknown", name |-> value]

\* mounts_parser.rs:150-154
filesystem_type(i) ==
    The({IF r.ok THEN Ok(r.rest, FileSystemTypeFrom(r.val)) ELSE Fail :
         r \in {SpacedString(i)}})

\* nom: separated_list1(tag(","), string_without_comma) after its first element
RECURSIVE SeparatedRest(_, _)
SeparatedRest(i, res) ==
    The({IF ~sep.ok THEN Ok(i, res)
         ELSE The({SeparatedRest(el.rest, Append(res, el.val)) :
                   el \in {string_without_comma(sep.rest)}}) :
         sep \in {tag(i, <<",">>)}})

\* mounts_parser.rs:156-161
mount_options(i) ==
    The({The({The({ThenSpace1(list) :
                   list \in {SeparatedRest(first.rest, <<first.val>>)}}) :
              first \in {string_without_comma(a.rest)}}) :
         a \in {space0(i)}})

\* map_res(take_while1(is_digit), from_digit) at the input i
DigitsToU8(i) ==
    The({IF ~b.ok THEN Fail
         ELSE The({IF v.ok THEN Ok(b.rest, v.val) ELSE Fail : v \in {from_digit(b.val)}}) :
         b \in {take_digits1(i)}})

\* mounts_parser.rs:163-167
fs_frequency(i) ==
    The({The({ThenSpace1(b) : b \in {DigitsToU8(a.rest)}}) : a \in {space0(i)}})

\* Faulty variant of fs_passno: any run of digits that fits a u8 is taken.
fs_passno_any(i) ==
    The({The({IF b.ok THEN Ok(space0(b.rest).rest, b.val) ELSE Fail :
              b \in {DigitsToU8(a.rest)}}) :
         a \in {space0(i)}})

\* mounts_parser.rs:169-173: tuple((space0, one_of("012"), space0))
fs_passno(i) ==
    The({IF a.rest # <<>> /\ a.rest[1] \in {"0", "1", "2"}
         THEN Ok(space0(Drop(a.rest, 1)).rest, from_digit(<<a.rest[1]>>).val)
         ELSE Fail :
         a \in {space0(i)}})

\* The record of mounts_parser.rs:191-198, once the six fields are parsed and
\* no input is left (all_consuming).
MountOf(d, m, t, o, f, n) ==
    IF n.ok /\ n.rest = <<>>
    THEN Ok(<<>>, [device |-> d.val,
                   mount_point |-> m.val,
                   file_system_type |-> t.val,
                   options |-> o.val,
                   file_system_frequency |-> f.val,
                   file_system_pass_number |-> n.val])
    ELSE Fail

\* mounts_parser.rs:175-201: all_consuming(tuple((device, ..., fs_passno)))
parse_line(line) ==
    The({IF ~d.ok THEN Fail ELSE
    The({IF ~m.ok THEN Fail ELSE
    The({IF ~t.ok THEN Fail ELSE
    The({IF ~o.ok THEN Fail ELSE
    The({IF ~f.ok THEN Fail ELSE
    The({MountOf(d, m, t, o, f, n) : n \in {fs_passno(f.rest)}})
        : f \in {fs_frequency(o.rest)}})
        : o \in {mount_options(t.rest)}})
        : t \in {filesystem_type(m.rest)}})
        : m \in {mount_point(d.rest)}})
        : d \in {device(line)}})

\* mounts_parser.rs:77-92: Mount::parse and Mount::from_str
MountFromStr(line) == parse_line(line)

(***************************************************************************)
(* FileMapping::new taken alone, for any requested size.                   *)
(***************************************************************************)
\* The orchestrator at rest, for the specifications that do not run it.
MainIdle ==
    /\ run = 1
    /\ results = <<>>
    /\ files = [q \in Paths |-> Absent]
    /\ Fresh
    /\ ctx = "env"

SizeInit ==
    /\ MainIdle
    /\ ParserIdle
    /\ call \in {[size |-> sz, done |-> FALSE] : sz \in SizeSamples}

\* file_mapping.rs:65-68: the value given to set_len and the two halves given
\* to CreateFileMappingW.
NewSizes ==
    /\ call # <<>>
    /\ ~call.done
    /\ call' = [size |-> call.size,
                done |-> TRUE,
                resize |-> AsU64(call.size),
                high |-> high_size(call.size),
                low |-> low_size(call.size)]
    /\ UNCHANGED <<mainVars, parserVars>>

SizeNext == NewSizes

SizeSpec == SizeInit /\ [][SizeNext]_vars

(***************************************************************************)
(* parse_proc_mouns, mounts_parser.rs:30-50, over a mount table, followed  *)
(* by find_shm_dir.                                                        *)
(***************************************************************************)
\* Fields of sample mount lines.
Sp == <<" ">>
DevPlain == <<"d">>
DevSpace == <<"a", "\\", "0", "4", "0", "b">>
DevBackslash == <<"a", "\\", "\\", "b">>
DevOther == <<"a", "\\", "x", "b">>
DevOctalTab == <<"a", "\\", "0", "1", "1">>
DeviceTokens == {DevPlain, DevSpace, DevBackslash, DevOther, DevOctalTab}

MpPlain == <<"/", "m">>
MpShm == <<"/", "d", "e", "v", "/", "s", "h", "m">>
MpSpace == <<"/", "a", "\\", "0", "4", "0", "b">>
MountPointTokens == {MpPlain, MpShm, MpSpace}

Proc == <<"p", "r", "o", "c">>
FsTokens == {Tmpfs, Proc}
Rw == <<"r", "w">>
Zero == <<"0">>

PassTokens == {<<"0">>, <<"1">>, <<"2">>, <<"3">>, <<"9">>, <<"a">>, <<"-">>,
               <<"1", "2">>, <<"2", "0">>, <<>>}

\* A line of six fields separated by single spaces.
LineOf(dev, mp, fs, pass) ==
    dev \o Sp \o mp \o Sp \o fs \o Sp \o Rw \o Sp \o Zero \o Sp \o pass

\* Lines tried one at a time: one field varies, the others are plain.
SingleLines ==
    {LineOf(dev, MpPlain, Proc, Zero) : dev \in DeviceTokens}
    \cup {LineOf(DevPlain, MpPlain, Proc, pass) : pass \in PassTokens}
    \cup {LineOf(DevPlain, mp, fs, Zero) : mp \in MountPointTokens, fs \in FsTokens}

\* Lines that tables of several lines are made of: three that follow the
\* grammar and two that do not (a pass number of 3, missing fields).
GoodShm == LineOf(DevPlain, MpShm, Tmpfs, <<"0">>)
GoodProc == LineOf(DevSpace, MpPlain, Proc, <<"1">>)
GoodTmp == LineOf(DevPlain, MpPlain, Tmpfs, <<"2">>)
BadPass == LineOf(DevPlain, MpPlain, Proc, <<"3">>)
BadShort == DevPlain \o Sp \o MpPlain
GoodLines == {GoodShm, GoodProc, GoodTmp}
BadLines == {BadPass, BadShort}
TableLines == GoodLines \cup BadLines

Tables ==
    {<<l>> : l \in SingleLines}
    \cup UNION {[1..n -> TableLines] : n \in 0..MaxLines}

ParserInit ==
    /\ MainIdle
    /\ SizeIdle
    /\ table \in Tables
    /\ pos = 1
    /\ mounts = <<>>
    /\ diags = 0
    /\ pstate = "opening"
    /\ shmDir = <<>>

\* mounts_parser.rs:33-36: File::open(path)?
OpenProcMounts ==
    /\ pstate = "opening"
    /\ \E env \in {"ok", "io_error"} :
        pstate' = IF env = "ok" THEN "reading" ELSE "io_error"
    /\ UNCHANGED <<table, pos, mounts, diags, shmDir, mainVars, sizeVars>>

\* Faulty variant of ReadLine: the first line that fails to parse ends the loop.
ReadLineStopping ==
    /\ pstate = "reading"
    /\ pos <= Len(table)
    /\ \E env \in {"ok", "io_error"} :
        IF env = "ok"
        THEN \E r \in {MountFromStr(table[pos])} :
                 /\ mounts' = IF r.ok THEN Append(mounts, r.val) ELSE mounts
                 /\ diags' = IF r.ok THEN diags ELSE diags + 1
                 /\ pos' = pos + 1
                 /\ pstate' = IF r.ok THEN pstate ELSE "ok"
        ELSE /\ pstate' = "io_error"
             /\ UNCHANGED <<mounts, diags, pos>>
    /\ UNCHANGED <<table, shmDir, mainVars, sizeVars>>

\* One iteration of the loop at mounts_parser.rs:40-47: `line?` returns a read
\* error; a parsed line is pushed, any other line is reported and skipped.
ReadLine ==
    /\ pstate = "reading"
    /\ pos <= Len(table)
    /\ \E env \in {"ok", "io_error"} :
        IF env = "ok"
        THEN \E r \in {MountFromStr(table[pos])} :
                 /\ mounts' = IF r.ok THEN Append(mounts, r.val) ELSE mounts
                 /\ diags' = IF r.ok THEN diags ELSE diags + 1
                 /\ pos' = pos + 1
                 /\ pstate' = pstate
        ELSE /\ pstate' = "io_error"
             /\ UNCHANGED <<mounts, diags, pos>>
    /\ UNCHANGED <<table, shmDir, mainVars, sizeVars>>

\* mounts_parser.rs:49: Ok(mounts)
ReturnMounts ==
    /\ pstate = "reading"
    /\ pos > Len(table)
    /\ pstate' = "ok"
    /\ UNCHANGED <<table, pos, mounts, diags, shmDir, mainVars, sizeVars>>

\* main.rs:66-81 and 136: find_shm_dir takes no mount table and returns
\* TMPFS_PATH; it has no failure.
FindShmDir ==
    /\ pstate = "ok"
    /\ shmDir = <<>>
    /\ shmDir' = [ok |-> TRUE, path |-> find_shm_dir]
    /\ UNCHANGED <<table, pos, mounts, diags, pstate, mainVars, sizeVars>>

ParserNext ==
    \/ OpenProcMounts
    \/ ReadLine
    \/ ReturnMounts
    \/ FindShmDir

ParserSpec == ParserInit /\ [][ParserNext]_vars

TypeOK ==
    /\ run \in 1..MaxRuns
    /\ pc \in {"open", "set_len", "map", "set_handler", "announce", "park",
               "unlink", "drop", "exited", "killed"}
    /\ idx \in 1..NumFiles
    /\ status \in {"running", "success", "failure", "panic", "killed"}
    /\ ctx \in {"main", "handler", "env"}
    /\ pending \in 0..MaxInterrupts
    /\ delivered \in 0..MaxInterrupts

(***************************************************************************)
(* Derived state used by the properties.                                   *)
(***************************************************************************)
PathOf(k) == PathJoin(find_shm_dir, ACC_FILES[k])
Segments == 1..NumFiles
Created == DOMAIN objects
SomeUnlink == \E k \in Segments : unlinks[k] > 0
SomeClose == \E k \in Created : objects[k].closes > 0
NoOpenHandle == \A k \in Created : objects[k].state # "open"
AllFilesGone == \A k \in Segments : files[PathOf(k)] = Absent
\* main has returned or panicked (the process was not terminated from outside)
Returned == status \in {"success", "failure", "panic"}
\* every configured mapping was created by this run
StartupDone == Len(objects) = NumFiles
StartupFailed == status = "failure" /\ err.cause \in {"open", "set_len", "map"}

(***************************************************************************)
(* C1: unlink-before-close.  Whenever a run makes a remove_file call, no   *)
(* mapping handle of that run has been closed, before or by that step: so  *)
(* every CloseHandle follows the last remove_file.                         *)
(***************************************************************************)
C1_UnlinkBeforeClose ==
    [][(run' = run /\ unlinks' # unlinks) =>
          \A k \in DOMAIN objects' :
              objects'[k].closes = 0 /\ objects'[k].state = "open"]_vars

\* A shutdown that unlinked every file and then closed every handle.
C1_Witness ==
    /\ pc = "exited"
    /\ \A k \in Segments : unlinks[k] = 1
    /\ StartupDone
    /\ \A k \in Created : objects[k].closes = 1

(***************************************************************************)
(* C2: a failed unlink is non-fatal: once the shutdown sequence has run    *)
(* and the process has ended, every configured segment has received        *)
(* exactly one unlink attempt, whichever attempts failed.                  *)
(***************************************************************************)
C2_EverySegmentUnlinkedOnce ==
    (Returned /\ SomeUnlink) => \A k \in Segments : unlinks[k] = 1

(***************************************************************************)
(* C3: when the creation of the k-th segment fails, the process ends with  *)
(* exactly the mappings of segments 1..k-1 created, each of them closed,   *)
(* and the error names segment k.                                          *)
(***************************************************************************)
C3_StartupFailureReleases ==
    StartupFailed =>
        /\ Len(objects) < NumFiles
        /\ \A k \in Created :
              /\ objects[k].name = ACC_FILES[k]
              /\ objects[k].state = "closed"
              /\ objects[k].closes = 1
        /\ err.segment = ACC_FILES[Len(objects) + 1]

\* The third segment failed in CreateFileMappingW after two mappings were made.
C3_Witness ==
    /\ StartupFailed
    /\ err.cause = "map"
    /\ Len(objects) = 2
    /\ \A k \in Created : objects[k].state = "closed"

(***************************************************************************)
(* C4: every created mapping handle is closed exactly once: CloseHandle is *)
(* never called twice on it, no handle is open once the process has ended, *)
(* and when main has returned (clean shutdown, startup failure, unlink     *)
(* failure) each handle has had exactly one CloseHandle.                   *)
(***************************************************************************)
C4_ClosedExactlyOnce ==
    /\ \A k \in Created : objects[k].closes <= 1
    /\ status # "running" => NoOpenHandle
    /\ Returned => \A k \in Created : objects[k].closes = 1

\* The exit path of a failed unlink, with all four handles closed once.
C4_Witness ==
    /\ status = "failure"
    /\ err.cause = "unlink"
    /\ StartupDone
    /\ \A k \in Created : objects[k].closes = 1 /\ objects[k].state = "closed"

(***************************************************************************)
(* C5: once the handler is installed, no shutdown step (no unlink, no      *)
(* close of a mapping handle) happens before a CTRL-C has been delivered.  *)
(***************************************************************************)
C5_NoShutdownBeforeInterrupt ==
    (handler /\ (SomeUnlink \/ SomeClose)) => delivered > 0

(***************************************************************************)
(* C6: a step of the handler context changes neither the backing files,    *)
(* nor the native mappings, nor the mapping set of main, nor the record of *)
(* unlink attempts: all of these change on other contexts only.            *)
(***************************************************************************)
C6_HandlerOnlyWakes ==
    [][ctx' = "handler" => UNCHANGED <<files, objects, mappings, unlinks, fileHandle>>]_vars

\* The handler has just run while main waits with all mappings alive.
C6_Witness ==
    /\ ctx = "handler"
    /\ token
    /\ pc = "park"
    /\ Len(mappings) = NumFiles
    /\ \A k \in Created : objects[k].state = "open"

(***************************************************************************)
(* C7: end to end: when startup succeeded, the handler was installed and a *)
(* CTRL-C was delivered, the process ends with every backing file removed, *)
(* no mapping handle open and exit status success.                         *)
(***************************************************************************)
C7_EndToEnd ==
    (status # "running" /\ StartupDone /\ handler /\ delivered > 0) =>
        /\ status = "success"
        /\ AllFilesGone
        /\ NoOpenHandle

(***************************************************************************)
(* C8: a second create/shutdown cycle after a successful first one, over   *)
(* the same names: unless the environment makes one of its calls fail it   *)
(* succeeds, and when it has succeeded no mapping handle is open and no    *)
(* backing file of a configured segment exists.                            *)
(***************************************************************************)
C8_SecondCycle ==
    (run >= 2 /\ results[run - 1] = "success" /\ Returned) =>
        /\ ~faulted => status = "success"
        /\ status = "success" => (NoOpenHandle /\ AllFilesGone /\ StartupDone)

\* Two successful cycles in a row.
C8_Witness ==
    /\ run = 2
    /\ results[1] = "success"
    /\ status = "success"
    /\ \A k \in Segments : unlinks[k] = 1

(***************************************************************************)
(* C9: when CreateFileMappingW is about to be called for a segment, its    *)
(* backing file has exactly the segment's size, whatever length set_len    *)
(* found; and when set_len has failed, main ends with that error and       *)
(* without a mapping for that segment.                                     *)
(***************************************************************************)
C9_ResizedBeforeMapping ==
    /\ pc = "map" => files[fileHandle] = FileOf(file_size(ACC_FILES[idx]))
    /\ err.cause = "set_len" =>
          /\ \A k \in Created : objects[k].name # err.segment
          /\ pc \in {"drop", "exited", "killed"}
          /\ status \in {"running", "failure", "killed"}

\* A longer file left behind was cut down to the size of the segment.
C9_Witness ==
    /\ pc = "map"
    /\ lastResize.exists
    /\ lastResize.len > file_size(ACC_FILES[idx])
    /\ files[fileHandle].len = file_size(ACC_FILES[idx])

(***************************************************************************)
(* C10: mappings are created and pushed in configuration order, and from   *)
(* the end of a successful startup until shutdown begins every configured  *)
(* segment has its backing file at <tmpfs dir>/<name> with exactly its     *)
(* size, and exactly one open native mapping, of the same name, over it.   *)
(***************************************************************************)
C10_OneFileOneMappingPerSegment ==
    /\ \A k \in Created : objects[k].name = ACC_FILES[k]
    /\ pc \in {"open", "set_len", "map", "set_handler", "announce", "park"} =>
          mappings = [k \in 1..Len(objects) |-> k]
    /\ pc \in {"set_handler", "announce", "park"} =>
          /\ StartupDone
          /\ \A k \in Segments :
                /\ files[PathOf(k)] = FileOf(file_size(ACC_FILES[k]))
                /\ objects[k].path = PathOf(k)
                /\ objects[k].state = "open"
                /\ Cardinality({j \in Created : objects[j].name = ACC_FILES[k]}) = 1

\* Waiting for the interrupt with the four mappings in place.
C10_Witness ==
    /\ pc = "park"
    /\ handler
    /\ Len(mappings) = NumFiles
    /\ files[PathOf(1)].len = 15660
    /\ files[PathOf(2)].len = 2048

(***************************************************************************)
(* C15: startup is fail-fast.  Once the creation of a segment has failed,  *)
(* no step of that run opens, creates or resizes a backing file or creates *)
(* a native mapping, and main is at neither the wait nor the unlink loop.  *)
(***************************************************************************)
C15_FailFast ==
    [][(run' = run /\ err.cause \in {"open", "set_len", "map"}) =>
          /\ files' = files
          /\ fileHandle' = fileHandle
          /\ Len(objects') = Len(objects)
          /\ unlinks' = unlinks
          /\ handler' = FALSE
          /\ pc' \in {"drop", "exited", "killed"}]_vars

\* The first segment failed, and none of the later segments was touched.
C15_Witness ==
    /\ StartupFailed
    /\ err.segment = ACC_FILES[1]
    /\ err.cause = "set_len"
    /\ objects = <<>>
    /\ ~SomeUnlink

(***************************************************************************)
(* C17: no lost wake-up.  With both threads scheduled, once the handler is *)
(* installed and a CTRL-C has been delivered, the unlink loop is reached,  *)
(* also when the handler runs before main has called park.                 *)
(***************************************************************************)
C17_NoLostWakeup == (handler /\ delivered > 0) ~> SomeUnlink

\* One CTRL-C, and the handler has run, before main has called park.
C17_Witness ==
    /\ pc = "announce"
    /\ handler
    /\ delivered = 1
    /\ pending = 0
    /\ token

(***************************************************************************)
(* C18: the handler is installed only once every configured mapping has    *)
(* been created, and the unlink loop only ever runs with one mapping per   *)
(* configured segment in the owned set; a CTRL-C that arrives while the    *)
(* mappings are being created leads to no unlink.                          *)
(***************************************************************************)
C18_HandlerAfterCreation ==
    /\ handler => StartupDone
    /\ (pc = "unlink" \/ SomeUnlink) => StartupDone
    /\ pc \in {"announce", "park", "unlink"} =>
          /\ mappings = [k \in Segments |-> k]
          /\ \A k \in Segments : objects[k].name = ACC_FILES[k]
    /\ (delivered > 0 /\ ~StartupDone) => (~SomeUnlink /\ pc # "unlink")

\* The unlink loop starts, after a CTRL-C, over the complete set.
C18_Witness ==
    /\ pc = "unlink"
    /\ idx = 1
    /\ delivered > 0
    /\ Len(mappings) = NumFiles
    /\ ~SomeUnlink

(***************************************************************************)
(* C19: the startup-failure path makes no unlink.  When the creation of    *)
(* segment k has failed and main has returned, the backing files of        *)
(* segments 1..k-1 are still in the directory (with their sizes), so is    *)
(* the file of segment k when its open succeeded, and the mapping handles  *)
(* are closed.                                                             *)
(***************************************************************************)
C19_StartupFailureLeavesFiles ==
    StartupFailed =>
        /\ ~SomeUnlink
        /\ \A k \in Created : files[PathOf(k)] = FileOf(file_size(ACC_FILES[k]))
        /\ err.cause \in {"set_len", "map"} => files[PathOf(Len(objects) + 1)].exists
        /\ NoOpenHandle

\* The second segment failed in set_len: two files are left, one handle closed.
C19_Witness ==
    /\ StartupFailed
    /\ err.cause = "set_len"
    /\ Len(objects) = 1
    /\ files[PathOf(1)].exists
    /\ files[PathOf(2)].exists
    /\ objects[1].state = "closed"

(***************************************************************************)
(* C16: for every requested size S, the halves given to the native call    *)
(* are 32-bit values with high * 2^32 + low = S, and the length given to   *)
(* set_len is S.  Numbers are compared digit by digit in base 2^16.        *)
(***************************************************************************)
Digit(x, k) == IF k <= Len(x) THEN x[k] ELSE 0
SameNumber(x, y) == \A k \in 1..4 : Digit(x, k) = Digit(y, k)
IsU32(x) == Len(x) = 2 /\ \A k \in 1..2 : x[k] \in 0..LimbMax

C16_SizeSplit ==
    (call # <<>> /\ call.done) =>
        /\ IsU32(call.high)
        /\ IsU32(call.low)
        /\ SameNumber(call.low \o call.high, call.size)
        /\ SameNumber(call.resize, call.size)

\* A size above 2^32 with all bits of its upper half set.
C16_Witness ==
    /\ call # <<>>
    /\ call.done
    /\ Len(call.size) = 4
    /\ call.size[4] = LimbMax
    /\ call.size[2] = 32768
    /\ call.high = <<call.size[3], LimbMax>>

(***************************************************************************)
(* C11: over a table made of lines that follow the grammar and lines that  *)
(* do not, parse_proc_mouns returns the records of exactly the lines that  *)
(* follow it, in input order, and reports one diagnostic per other line:   *)
(* with N good lines and one bad line anywhere, N records and one          *)
(* diagnostic.                                                             *)
(***************************************************************************)
NoName == <<>>
ExpectedMount(line) ==
    CASE line = GoodShm ->
            [device |-> <<"d">>, mount_point |-> MpShm,
             file_system_type |-> [kind |-> "TmpFs", name |-> NoName],
             options |-> <<Rw>>, file_system_frequency |-> 0,
             file_system_pass_number |-> 0]
      [] line = GoodProc ->
            [device |-> <<"a", " ", "b">>, mount_point |-> MpPlain,
             file_system_type |-> [kind |-> "Unknown", name |-> Proc],
             options |-> <<Rw>>, file_system_frequency |-> 0,
             file_system_pass_number |-> 1]
      [] line = GoodTmp ->
            [device |-> <<"d">>, mount_point |-> MpPlain,
             file_system_type |-> [kind |-> "TmpFs", name |-> NoName],
             options |-> <<Rw>>, file_system_frequency |-> 0,
             file_system_pass_number |-> 2]
GoodOf(t) == SelectSeq(t, LAMBDA l : l \in GoodLines)
BadOf(t) == SelectSeq(t, LAMBDA l : l \in BadLines)
FromTableLines == \A k \in DOMAIN table : table[k] \in TableLines

C11_MalformedLineSkipped ==
    (pstate = "ok" /\ FromTableLines) =>
        /\ mounts = [k \in 1..Len(GoodOf(table)) |-> ExpectedMount(GoodOf(table)[k])]
        /\ diags = Len(BadOf(table))

\* Two good lines around one bad line: two records, one diagnostic.
C11_Witness ==
    /\ pstate = "ok"
    /\ table = <<GoodShm, BadPass, GoodProc>>
    /\ Len(mounts) = 2
    /\ mounts[2].device = <<"a", " ", "b">>
    /\ diags = 1

(***************************************************************************)
(* C12: in the device and mount_point fields, \040 decodes to a space and  *)
(* a backslash followed by any other character decodes to that character:  *)
(* a line whose other fields are plain is parsed, with the field decoded   *)
(* so.                                                                     *)
(***************************************************************************)
Decoded(field) ==
    CASE field = DevPlain -> <<"d">>
      [] field = DevSpace -> <<"a", " ", "b">>
      [] field = DevBackslash -> <<"a", "\\", "b">>
      [] field = DevOther -> <<"a", "x", "b">>
      [] field = DevOctalTab -> <<"a", "0", "1", "1">>
      [] field = MpPlain -> <<"/", "m">>
      [] field = MpShm -> MpShm
      [] field = MpSpace -> <<"/", "a", " ", "b">>

C12_EscapeDecoding ==
    (pstate = "ok" /\ Len(table) = 1) =>
        /\ \A dev \in DeviceTokens :
              table[1] = LineOf(dev, MpPlain, Proc, Zero) =>
                  (Len(mounts) = 1 /\ mounts[1].device = Decoded(dev))
        /\ \A mp \in MountPointTokens :
              table[1] = LineOf(DevPlain, mp, Proc, Zero) =>
                  (Len(mounts) = 1 /\ mounts[1].mount_point = Decoded(mp))

(***************************************************************************)
(* C13: a line whose other fields are plain is parsed exactly when its     *)
(* pass number is one of 0, 1, 2, and then yields that number; any other   *)
(* pass number, 12 included, makes the line fail.                          *)
(***************************************************************************)
C13_PassNumber ==
    (pstate = "ok" /\ Len(table) = 1) =>
        \A pass \in PassTokens :
            table[1] = LineOf(DevPlain, MpPlain, Proc, pass) =>
                IF pass \in {<<"0">>, <<"1">>, <<"2">>}
                THEN /\ Len(mounts) = 1
                     /\ diags = 0
                     /\ mounts[1].file_system_pass_number =
                           (CASE pass = <<"0">> -> 0 [] pass = <<"1">> -> 1
                              [] pass = <<"2">> -> 2)
                ELSE mounts = <<>> /\ diags = 1

\* A pass number of 12 was rejected.
C13_Witness ==
    /\ pstate = "ok"
    /\ table = <<LineOf(DevPlain, MpPlain, Proc, <<"1", "2">>)>>
    /\ mounts = <<>>
    /\ diags = 1

(***************************************************************************)
(* C14: discovery selects among the records of type TmpFs: /dev/shm when   *)
(* one of them is mounted there, else the first of them in table order,    *)
(* and it fails when there is none.                                        *)
(***************************************************************************)
TmpfsMounts == SelectSeq(mounts, LAMBDA m : m.file_system_type.kind = "TmpFs")
\* The path a mount point of the sample lines is written as.
PathText(mp) ==
    CASE mp = MpShm -> "/dev/shm/"
      [] mp = MpPlain -> "/m/"
      [] OTHER -> "/a b/"

C14_TmpfsDiscovery ==
    shmDir # <<>> =>
        IF TmpfsMounts = <<>>
        THEN ~shmDir.ok
        ELSE /\ shmDir.ok
             /\ shmDir.path =
                   IF \E k \in DOMAIN TmpfsMounts : TmpfsMounts[k].mount_point = MpShm
                   THEN PathText(MpShm)
                   ELSE PathText(TmpfsMounts[1].mount_point)

====
